---------------------------- MODULE Spec2Model ----------------------------
(***************************************************************************)
(* A model of nbconflux's PlotlyStaticPreprocessor                         *)
(* (src/nbconflux/plotly_preprocessor.py): the nbconvert preprocessor that *)
(* replaces the HTML output of an interactive Plotly chart by a static PNG *)
(* image.                                                                  *)
(*                                                                         *)
(* Texts (the HTML of an output, the groups the pattern captures) are      *)
(* strings, read one character at a time.  Python values are tagged        *)
(* tuples: <<"none">>, <<"bool", b>>, <<"int", n>>, <<"str", s>>,          *)
(* <<"list", seq>>, <<"tuple", seq>>, <<"set", S>> and <<"dict", kvs>>,    *)
(* where kvs is the sequence of <<key, value>> pairs of the dict in its    *)
(* insertion order, the order Python iterates it in.                       *)
(***************************************************************************)
EXTENDS Integers, Sequences, FiniteSets, TLC

(***************************************************************************)
(* Texts                                                                   *)
(***************************************************************************)

\* The character of t at position i, "" outside the text.
Ch(t, i) == IF i \in 1..Len(t) THEN SubSeq(t, i, i) ELSE ""

\* Whether the text w occurs in t at position i.
StartsWith(t, i, w) == i >= 1 /\ i + Len(w) - 1 <= Len(t) /\ SubSeq(t, i, i + Len(w) - 1) = w

Min(S) == CHOOSE m \in S : \A n \in S : m <= n

\* F applied to the value of e, which is computed once.
Bind(e, F(_)) == CHOOSE y \in {F(v) : v \in {e}} : TRUE

\* The characters \s matches.
Whitespace == {" ", "\t", "\n", "\r"}

\* \s*, which is followed in the pattern by a character that is no
\* whitespace: the first position from p on that holds none.
SkipWs(t, p) == Min({q \in p..(Len(t) + 1) : Ch(t, q) \notin Whitespace})

(***************************************************************************)
(* Python values                                                           *)
(***************************************************************************)

VNone == <<"none">>
VBool(b) == <<"bool", b>>
VInt(n) == <<"int", n>>
VStr(s) == <<"str", s>>
VList(xs) == <<"list", xs>>
VTuple(xs) == <<"tuple", xs>>
VSet(S) == <<"set", S>>
VDict(kvs) == <<"dict", kvs>>

Kind(v) == v[1]
IsDict(v) == Kind(v) = "dict"

\* Whether a value can be a dict key or a set member.
Hashable(v) == Kind(v) \notin {"list", "set", "dict"}

DictHas(d, k) == \E i \in 1..Len(d[2]) : d[2][i][1] = k

\* d[k] of a dict that has the key.
DictAt(d, k) == d[2][CHOOSE i \in 1..Len(d[2]) : d[2][i][1] = k][2]

\* d.get(k, dflt)
DictGet(d, k, dflt) == IF DictHas(d, k) THEN DictAt(d, k) ELSE dflt

\* d[k] = v: an existing key keeps its place, a new key goes last.
DictSet(d, k, v) ==
    IF DictHas(d, k)
    THEN VDict([i \in 1..Len(d[2]) |-> IF d[2][i][1] = k THEN <<k, v>> ELSE d[2][i]])
    ELSE VDict(Append(d[2], <<k, v>>))

\* The dict built from a sequence of pairs inserted left to right (a dict
\* display, a dict comprehension).
RECURSIVE DictFromPairs(_, _)
DictFromPairs(kvs, acc) ==
    IF kvs = <<>> THEN acc
    ELSE DictFromPairs(Tail(kvs), DictSet(acc, Head(kvs)[1], Head(kvs)[2]))

(***************************************************************************)
(* NEWPLOT_PATTERN.search                                                  *)
(***************************************************************************)

NoSpan == [ok |-> FALSE, from |-> 0, to |-> 0]

\* \s*\)
TailOK(t, p) == Ch(t, SkipWs(t, p)) = ")"

\* (?:\s*,\s*(?P<config>\{[\s\S]*?\}))? followed by \s*\) with the group
\* taken: p is the position after the layout's closing brace.  The lazy body
\* ends at the first "}" after which the rest of the pattern matches.
ConfigSpan(t, p) ==
    LET q == SkipWs(t, p)
        c == SkipWs(t, q + 1)
        G == {g \in (c + 1)..Len(t) : Ch(t, g) = "}" /\ TailOK(t, g + 1)}
    IN  IF Ch(t, q) = "," /\ Ch(t, c) = "{" /\ G # {}
        THEN [ok |-> TRUE, from |-> c, to |-> Min(G)]
        ELSE NoSpan

\* (?P<layout>\{[\s\S]*?\}) from the "{" at l: the lazy body ends at the
\* first "}" after which the optional config and \s*\) match.
LayoutSpan(t, l) ==
    LET F == {f \in (l + 1)..Len(t) :
                 Ch(t, f) = "}" /\ (ConfigSpan(t, f + 1).ok \/ TailOK(t, f + 1))}
    IN  IF F # {} THEN [ok |-> TRUE, from |-> l, to |-> Min(F)] ELSE NoSpan

\* The "{" that opens the layout after a data group ending at e: \s*,\s*
LayoutStart(t, e) == SkipWs(t, SkipWs(t, e + 1) + 1)

\* (?P<data>\[[\s\S]*?\]) from the "[" at d: the lazy body ends at the first
\* "]" after which \s*,\s* and the rest of the pattern match.
DataSpan(t, d) ==
    LET E == {e \in (d + 1)..Len(t) :
                 /\ Ch(t, e) = "]"
                 /\ Ch(t, SkipWs(t, e + 1)) = ","
                 /\ Ch(t, LayoutStart(t, e)) = "{"
                 /\ LayoutSpan(t, LayoutStart(t, e)).ok}
    IN  IF E # {} THEN [ok |-> TRUE, from |-> d, to |-> Min(E)] ELSE NoSpan

\* (?P<id>'[^']+'|"[^"]+") at p: the position of the closing quote, 0 when
\* the group does not match.
IdEnd(t, p) ==
    LET q == Ch(t, p)
        C == {i \in (p + 1)..Len(t) : Ch(t, i) = q}
    IN  IF q \in {"'", "\""} /\ C # {} /\ Min(C) >= p + 2 THEN Min(C) ELSE 0

NewPlotCall == "Plotly.newPlot"

\* The "[" that opens the data group of a match starting at s, 0 when the
\* pattern does not match that far.
DataStart(t, s) ==
    LET open == SkipWs(t, s + Len(NewPlotCall))
        id == SkipWs(t, open + 1)
        comma == SkipWs(t, IdEnd(t, id) + 1)
        d == SkipWs(t, comma + 1)
    IN  IF /\ StartsWith(t, s, NewPlotCall)
           /\ Ch(t, open) = "("
           /\ IdEnd(t, id) # 0
           /\ Ch(t, comma) = ","
           /\ Ch(t, d) = "["
        THEN d ELSE 0

MatchesAt(t, s) == DataStart(t, s) # 0 /\ DataSpan(t, DataStart(t, s)).ok

NoMatch == [matched |-> FALSE, data |-> "", layout |-> "", config |-> "", has_config |-> FALSE]

\* The match object of NEWPLOT_PATTERN.search(html): the groups of the match
\* at the leftmost position the pattern matches at.
NEWPLOT_PATTERN(html) ==
    Bind({s \in 1..Len(html) : MatchesAt(html, s)}, LAMBDA S :
        IF S = {} THEN NoMatch
        ELSE Bind(DataSpan(html, DataStart(html, Min(S))), LAMBDA d :
             Bind(LayoutSpan(html, LayoutStart(html, d.to)), LAMBDA l :
             Bind(ConfigSpan(html, l.to + 1), LAMBDA c :
                 [matched |-> TRUE,
                  data |-> SubSeq(html, d.from, d.to),
                  layout |-> SubSeq(html, l.from, l.to),
                  config |-> IF c.ok THEN SubSeq(html, c.from, c.to) ELSE "",
                  has_config |-> c.ok]))))

(***************************************************************************)
(* _fix_js                                                                 *)
(***************************************************************************)

\* str.replace(old, new): every occurrence, left to right, not overlapping.
RECURSIVE Replace(_, _, _)
Replace(s, old, new) ==
    LET I == {i \in 1..Len(s) : StartsWith(s, i, old)} IN
    IF I = {} THEN s
    ELSE SubSeq(s, 1, Min(I) - 1) \o new
         \o Replace(SubSeq(s, Min(I) + Len(old), Len(s)), old, new)

_fix_js(js) == Replace(Replace(Replace(js, "null", "None"), "true", "True"), "false", "False")

(***************************************************************************)
(* ast.literal_eval, for the literals the captured groups can hold: lists, *)
(* dicts, sets, quoted strings, non-negative integers, None, True, False,  *)
(* and a tuple without parentheses at the top.  Escape sequences, floats   *)
(* and signs are outside the model; no text the model draws holds one.     *)
(***************************************************************************)

Digits == {"0", "1", "2", "3", "4", "5", "6", "7", "8", "9"}
DigitValue == [c \in Digits |-> CHOOSE n \in 0..9 : Ch("0123456789", n + 1) = c]
Letters == {Ch("abcdefghijklmnopqrstuvwxyzABCDEFGHIJKLMNOPQRSTUVWXYZ_", i) : i \in 1..53}

\* The position after the run of characters of C that starts at p.
RunEnd(t, p, C) == Min({q \in p..(Len(t) + 1) : Ch(t, q) \notin C})

RECURSIVE IntOf(_)
IntOf(s) == IF s = "" THEN 0 ELSE 10 * IntOf(SubSeq(s, 1, Len(s) - 1)) + DigitValue[Ch(s, Len(s))]

ParseFail == [ok |-> FALSE, v |-> VNone, p |-> 0]
Parsed(v, p) == [ok |-> TRUE, v |-> v, p |-> p]

RECURSIVE ParseValue(_, _), ParseItems(_, _, _, _), ParsePairs(_, _, _)

\* The value that starts at p (after whitespace) and the position after it.
ParseValue(t, p0) ==
    LET p == SkipWs(t, p0)
        c == Ch(t, p)
    IN  IF c = "[" THEN
            Bind(ParseItems(t, p + 1, "]", <<>>), LAMBDA r :
                IF r.ok THEN Parsed(VList(r.v), r.p) ELSE ParseFail)
        ELSE IF c = "{" THEN
            IF Ch(t, SkipWs(t, p + 1)) = "}" THEN Parsed(VDict(<<>>), SkipWs(t, p + 1) + 1)
            ELSE Bind(ParseValue(t, p + 1), LAMBDA k :
                 IF ~k.ok THEN ParseFail
                 ELSE IF Ch(t, SkipWs(t, k.p)) = ":" THEN
                     Bind(ParsePairs(t, p + 1, <<>>), LAMBDA r :
                         IF r.ok /\ \A i \in 1..Len(r.v) : Hashable(r.v[i][1])
                         THEN Parsed(DictFromPairs(r.v, VDict(<<>>)), r.p) ELSE ParseFail)
                 ELSE
                     Bind(ParseItems(t, p + 1, "}", <<>>), LAMBDA r :
                         IF r.ok /\ \A i \in 1..Len(r.v) : Hashable(r.v[i])
                         THEN Parsed(VSet({r.v[i] : i \in 1..Len(r.v)}), r.p) ELSE ParseFail))
        ELSE IF c \in {"'", "\""} THEN
            Bind({i \in (p + 1)..Len(t) : Ch(t, i) = c}, LAMBDA C :
                IF C = {} \/ \E i \in (p + 1)..(Min(C) - 1) : Ch(t, i) \in {"\n", "\\"}
                THEN ParseFail
                ELSE Parsed(VStr(SubSeq(t, p + 1, Min(C) - 1)), Min(C) + 1))
        ELSE IF c \in Digits THEN
            Bind(RunEnd(t, p, Digits), LAMBDA e :
                IF Ch(t, e) \in Letters \cup {"."} \/ (c = "0" /\ e > p + 1) THEN ParseFail
                ELSE Parsed(VInt(IntOf(SubSeq(t, p, e - 1))), e))
        ELSE IF c \in Letters THEN
            Bind(RunEnd(t, p, Letters \cup Digits), LAMBDA e :
                Bind(SubSeq(t, p, e - 1), LAMBDA w :
                    IF w = "None" THEN Parsed(VNone, e)
                    ELSE IF w = "True" THEN Parsed(VBool(TRUE), e)
                    ELSE IF w = "False" THEN Parsed(VBool(FALSE), e)
                    ELSE ParseFail))
        ELSE ParseFail

\* value, value, ... up to the closing character (a trailing comma is allowed).
ParseItems(t, p0, close, acc) ==
    Bind(SkipWs(t, p0), LAMBDA p :
        IF p > Len(t) THEN ParseFail
        ELSE IF Ch(t, p) = close THEN Parsed(acc, p + 1)
        ELSE Bind(ParseValue(t, p), LAMBDA r :
             IF ~r.ok THEN ParseFail
             ELSE Bind(SkipWs(t, r.p), LAMBDA q :
                  IF Ch(t, q) = "," THEN ParseItems(t, q + 1, close, Append(acc, r.v))
                  ELSE IF Ch(t, q) = close THEN Parsed(Append(acc, r.v), q + 1)
                  ELSE ParseFail)))

\* key: value, key: value, ... up to the closing brace.
ParsePairs(t, p0, acc) ==
    Bind(SkipWs(t, p0), LAMBDA p :
        IF p > Len(t) THEN ParseFail
        ELSE IF Ch(t, p) = "}" THEN Parsed(acc, p + 1)
        ELSE Bind(ParseValue(t, p), LAMBDA k :
             IF ~k.ok \/ Ch(t, SkipWs(t, k.p)) # ":" THEN ParseFail
             ELSE Bind(ParseValue(t, SkipWs(t, k.p) + 1), LAMBDA v :
                  IF ~v.ok THEN ParseFail
                  ELSE Bind(SkipWs(t, v.p), LAMBDA q :
                       IF Ch(t, q) = "," THEN ParsePairs(t, q + 1, Append(acc, <<k.v, v.v>>))
                       ELSE IF Ch(t, q) = "}" THEN Parsed(Append(acc, <<k.v, v.v>>), q + 1)
                       ELSE ParseFail))))

\* value, value, ... to the end of the text: the rest of a top-level tuple.
RECURSIVE ParseTupleRest(_, _, _)
ParseTupleRest(t, p0, acc) ==
    Bind(SkipWs(t, p0), LAMBDA p :
        IF p > Len(t) THEN Parsed(acc, p)
        ELSE Bind(ParseValue(t, p), LAMBDA r :
             IF ~r.ok THEN ParseFail
             ELSE Bind(SkipWs(t, r.p), LAMBDA q :
                  IF q > Len(t) THEN Parsed(Append(acc, r.v), q)
                  ELSE IF Ch(t, q) = "," THEN ParseTupleRest(t, q + 1, Append(acc, r.v))
                  ELSE ParseFail)))

Raised == [ok |-> FALSE, v |-> VNone]

\* ast.literal_eval(text): Raised when it raises.
literal_eval(text) ==
    Bind(ParseValue(text, 1), LAMBDA r :
        IF ~r.ok THEN Raised
        ELSE Bind(SkipWs(text, r.p), LAMBDA q :
             IF q > Len(text) THEN [ok |-> TRUE, v |-> r.v]
             ELSE IF Ch(text, q) = "," THEN
                 Bind(ParseTupleRest(text, q + 1, <<r.v>>), LAMBDA rest :
                     IF rest.ok THEN [ok |-> TRUE, v |-> VTuple(rest.v)] ELSE Raised)
             ELSE Raised))

(***************************************************************************)
(* extract_plotly_json                                                     *)
(***************************************************************************)

\* The value None of a fig_json that was not extracted.
NoFig == [absent |-> TRUE]

\* extract_plotly_json(html): the dict {"data", "layout", "config"}, or NoFig
\* for the None of a pattern miss and of a literal that does not parse.
\* The three literals are evaluated in the order data, layout, config.
extract_plotly_json(html) ==
    Bind(NEWPLOT_PATTERN(html), LAMBDA match :
        IF ~match.matched THEN NoFig
        ELSE Bind([g \in {"data", "layout", "config"} |->
                      IF g = "config" /\ ~match.has_config
                      THEN [ok |-> TRUE, v |-> VDict(<<>>)]
                      ELSE literal_eval(_fix_js(match[g]))],
                  LAMBDA lit :
            IF lit.data.ok /\ lit.layout.ok /\ lit.config.ok
            THEN [absent |-> FALSE, data |-> lit.data.v, layout |-> lit.layout.v,
                  config |-> lit.config.v]
            ELSE NoFig))

(***************************************************************************)
(* normalize_heatmapgl                                                     *)
(***************************************************************************)

Str_type == VStr("type")
Str_heatmapgl == VStr("heatmapgl")
Str_heatmap == VStr("heatmap")
Str_template == VStr("template")
Str_data == VStr("data")
Str_width == VStr("width")

\* The body of the loop over the traces: a heatmapgl trace becomes a heatmap.
TraceNormalized(trace) ==
    IF DictGet(trace, Str_type, VNone) = Str_heatmapgl
    THEN DictSet(trace, Str_type, Str_heatmap) ELSE trace

\* A faulty variant of TemplateKey: no key is renamed.
TemplateKeyKept(k) == k

\* The key a template.data entry is stored under in the rebuilt dict.
TemplateKey(k) == IF k = Str_heatmapgl THEN Str_heatmap ELSE k

\* The dict comprehension over data_template.items().
TemplateDataRenamed(data_template) ==
    DictFromPairs([i \in 1..Len(data_template[2]) |->
                      <<TemplateKey(data_template[2][i][1]), data_template[2][i][2]>>],
                  VDict(<<>>))

\* normalize_heatmapgl(fig_json): fig is fig_json as the call leaves it, and
\* raised says that the call raised AttributeError (.get of a value that is
\* no dict) at the point it had then reached.
normalize_heatmapgl(f) ==
    LET traces == f.data[2]
        Bad == {i \in 1..Len(traces) : ~IsDict(traces[i])}
        stop == IF Bad = {} THEN Len(traces) + 1 ELSE Min(Bad)
        data == <<f.data[1], [i \in 1..Len(traces) |->
                     IF i < stop THEN TraceNormalized(traces[i]) ELSE traces[i]]>>
        layout == f.layout
        template == DictGet(layout, Str_template, VDict(<<>>))
        data_template == DictGet(template, Str_data, VNone)
        template2 == IF IsDict(data_template)
                     THEN DictSet(template, Str_data, TemplateDataRenamed(data_template))
                     ELSE template
    IN  IF Bad # {} \/ ~IsDict(layout) \/ ~IsDict(template)
        THEN [raised |-> TRUE, fig |-> [f EXCEPT !.data = data]]
        ELSE [raised |-> FALSE,
              fig |-> [f EXCEPT !.data = data,
                                !.layout = DictSet(layout, Str_template, template2)]]

(***************************************************************************)
(* go.Figure, pio.to_image, base64.b64encode, uuid.uuid4                   *)
(***************************************************************************)

\* The width the metadata falls back on.
DefaultWidth == 700

\* fig.layout.width of the figure built from fig_json: the layout's width,
\* None when it has none.
FigureWidth(f) == DictGet(f.layout, Str_width, VNone)

\* A faulty variant of WidthOr: the width of the figure is ignored.
WidthIgnored(w) == DefaultWidth

\* fig.layout.width or 700
WidthOr(w) == IF w = VNone \/ w = VInt(0) THEN DefaultWidth ELSE w[2]

\* The images pio.to_image can return: the PNG signature, and longer files.
PngSignature == <<137, 80, 78, 71, 13, 10, 26, 10>>
PngImages == {PngSignature, PngSignature \o <<0>>}

Base64Alphabet == "ABCDEFGHIJKLMNOPQRSTUVWXYZabcdefghijklmnopqrstuvwxyz0123456789+/"
B64Char(n) == Ch(Base64Alphabet, n + 1)

\* base64.b64encode(bytes).decode()
RECURSIVE b64encode(_)
b64encode(b) ==
    IF Len(b) = 0 THEN ""
    ELSE IF Len(b) = 1 THEN
        B64Char(b[1] \div 4) \o B64Char((b[1] % 4) * 16) \o "=="
    ELSE IF Len(b) = 2 THEN
        B64Char(b[1] \div 4) \o B64Char((b[1] % 4) * 16 + b[2] \div 16)
        \o B64Char((b[2] % 16) * 4) \o "="
    ELSE
        B64Char(b[1] \div 4) \o B64Char((b[1] % 4) * 16 + b[2] \div 16)
        \o B64Char((b[2] % 16) * 4 + b[3] \div 64) \o B64Char(b[3] % 64)
        \o b64encode(SubSeq(b, 4, Len(b)))

\* The values uuid.uuid4().hex can take.
MaxUuid == 2
UuidHex == {"u" \o Ch("0123456789", i + 1) : i \in 0..(MaxUuid - 1)}

\* A faulty variant of FileName: one name for every image.
FileNameFixed(hex) == "plotly_static_.png"

\* f"plotly_static_{uuid.uuid4().hex}.png"
FileName(hex) == "plotly_static_" \o hex \o ".png"

(***************************************************************************)
(* Notebooks                                                               *)
(***************************************************************************)

EmptyDict == [k \in {} |-> 0]

\* out.get("data", {}).get("text/html"), with "" for the None of an output
\* that has no such entry: the code only tests it for truth.
HtmlOf(out) ==
    IF "data" \in DOMAIN out /\ "text/html" \in DOMAIN out.data
    THEN out.data["text/html"] ELSE ""

\* A faulty variant of IsCodeCell: no cell is skipped.
IsCodeCellAny(cell) == TRUE

\* cell.cell_type != "code" skips the cell.
IsCodeCell(cell) == cell.cell_type = "code"

\* cell.get("outputs", [])
CellOutputs(cell) == IF "outputs" \in DOMAIN cell THEN cell.outputs ELSE <<>>

\* Faulty variants of PassThrough: the output is lost, or only its type is kept.
PassThroughDropped(outs, out) == outs
PassThroughBare(outs, out) == Append(outs, [output_type |-> out.output_type])

\* new_outputs.append(out)
PassThrough(outs, out) == Append(outs, out)

\* new_output(output_type="display_data", data=..., metadata=...)
StaticOutput(png, w) ==
    [output_type |-> "display_data",
     data |-> ("image/png" :> b64encode(png)),
     metadata |-> ("image/png" :> [width |-> WidthOr(w)])]

\* outputs_store[fname] = png_bytes
StoreImage(store, fname, png) ==
    [k \in DOMAIN store \cup {fname} |-> IF k = fname THEN png ELSE store[k]]

\* resources = resources or {}; resources.setdefault("outputs", {}).  The
\* resources the caller passes are NoResources (None) or a dict.
NoResources == [none |-> TRUE]
EnterResources(res) ==
    IF res = NoResources \/ res = EmptyDict THEN [outputs |-> EmptyDict]
    ELSE IF "outputs" \in DOMAIN res THEN res
    ELSE [k \in DOMAIN res \cup {"outputs"} |-> IF k = "outputs" THEN EmptyDict ELSE res[k]]

\* The OutputsStore the resources hold, empty when they hold none yet.
StoreOf(res) ==
    IF res # NoResources /\ "outputs" \in DOMAIN res THEN res.outputs ELSE EmptyDict

(***************************************************************************)
(* The documents and resources a caller passes                             *)
(***************************************************************************)

HtmlPlain == "<b>hi</b>"
HtmlBadLiteral == "<script>Plotly.newPlot('x', [{\"y\":[NaN]}], {})</script>"
HtmlChart == "<script>Plotly.newPlot('x', [{\"type\":\"heatmapgl\"}], {})</script>"
HtmlChartWide == "<script>Plotly.newPlot(\"x\",\n[],\n{\"width\":500},\n{\"responsive\":true})</script>"
HtmlBadTrace == "<script>Plotly.newPlot('x', [1], {})</script>"

HtmlOutput(h) ==
    [output_type |-> "display_data", data |-> ("text/html" :> h), metadata |-> EmptyDict]

OutStream == [output_type |-> "stream", name |-> "stdout", text |-> "hi"]
OutHtmlPlain == HtmlOutput(HtmlPlain)
OutBadLiteral == HtmlOutput(HtmlBadLiteral)
OutChart == HtmlOutput(HtmlChart)
OutChartWide == HtmlOutput(HtmlChartWide)
OutBadTrace == HtmlOutput(HtmlBadTrace)

CodeOutputs == {OutStream, OutHtmlPlain, OutBadLiteral, OutChart, OutChartWide, OutBadTrace}

\* The most cells of a document, and the most outputs of all its cells together.
MaxCells == 2
MaxOutputs == 2

SeqsUpTo(S, n) == UNION {[1..k -> S] : k \in 0..n}

\* The cells that hold at most n outputs: code cells with outputs, a code cell
\* that has no outputs entry, and a cell of another kind that holds a chart.
Cells(n) ==
    {[cell_type |-> "code", outputs |-> s] : s \in SeqsUpTo(CodeOutputs, n) \ {<<>>}}
    \cup {[cell_type |-> "code"]}
    \cup {[cell_type |-> "raw", outputs |-> <<OutChart>>] : k \in 1..(IF n >= 1 THEN 1 ELSE 0)}

\* The documents of at most k cells and n outputs.
RECURSIVE DocsOf(_, _)
DocsOf(k, n) ==
    IF k = 0 THEN {<<>>}
    ELSE {<<>>} \cup UNION {{<<c>> \o d : d \in DocsOf(k - 1, n - Len(CellOutputs(c)))} :
                            c \in Cells(n)}

Docs == DocsOf(MaxCells, MaxOutputs)

\* The resources a call can be given: None, a dict without outputs, or a
\* dict with the outputs stored so far by another preprocessor or by an
\* earlier call of this one.
InitialResources ==
    {NoResources, [unique_key |-> "nb"],
     [outputs |-> ("output_0_0.png" :> PngSignature) @@ (FileName("u0") :> PngSignature)]}

(***************************************************************************)
(* State                                                                   *)
(***************************************************************************)

VARIABLES
    pc,             \* where the program is: "idle", in preprocess at "cells" (the
                    \* loop over the cells) or "outputs" (the loop over a cell's
                    \* outputs), "returned", "raised"; the names of the steps of
                    \* the specifications of the single operations
    nb,             \* nb.cells
    resources,      \* the resources dict (NoResources for None)
    ci,             \* the index of the cell the loop over nb.cells is at
    oi,             \* the index of the output the loop over outputs is at
    new_outputs,    \* new_outputs of the cell in progress
    html,           \* html of the output last looked at
    fig_json,       \* fig_json of the output last looked at
    issued,         \* the uuids generated so far
    nb0,            \* history: nb.cells as passed to the call
    store0,         \* history: resources["outputs"] as passed to the call
    log,            \* history: what became of each output the call has handled
    src,            \* history: the arguments the text given to extract_plotly_json was written from
    fig_in          \* history: the fig_json given to normalize_heatmapgl

vars == <<pc, nb, resources, ci, oi, new_outputs, html, fig_json, issued, nb0, store0, log,
          src, fig_in>>

NoSrc == [none |-> TRUE]

(***************************************************************************)
(* preprocess                                                              *)
(***************************************************************************)

Init ==
    /\ pc = "idle"
    /\ nb = <<>>
    /\ resources \in InitialResources
    /\ ci = 0
    /\ oi = 0
    /\ new_outputs = <<>>
    /\ html = ""
    /\ fig_json = NoFig
    /\ issued = {h \in UuidHex : FileName(h) \in DOMAIN StoreOf(resources)}
    /\ nb0 = <<>>
    /\ store0 = StoreOf(resources)
    /\ log = <<>>
    /\ src = NoSrc
    /\ fig_in = NoFig

\* The output the loop over the outputs is at.
Out == CellOutputs(nb[ci])[oi]

AtOutput == pc = "outputs" /\ oi <= Len(CellOutputs(nb[ci]))

Logged(what, fname, png) ==
    Append(log, [cell |-> ci, index |-> oi, what |-> what, fname |-> fname, png |-> png,
                 spec |-> IF what = "converted" THEN fig_in ELSE NoFig])

\* preprocess(nb, resources) is called: the first two statements.
Call ==
    /\ pc = "idle"
    /\ nb' \in Docs
    /\ nb0' = nb'
    /\ resources' = EnterResources(resources)
    /\ store0' = StoreOf(resources)
    /\ ci' = 1
    /\ UNCHANGED <<oi, new_outputs, html, fig_json, issued, log, src, fig_in>>
    /\ pc' = "cells"

\* if cell.cell_type != "code": continue
SkipCell ==
    /\ pc = "cells"
    /\ ci <= Len(nb)
    /\ ~IsCodeCell(nb[ci])
    /\ ci' = ci + 1
    /\ UNCHANGED <<pc, nb, resources, oi, new_outputs, html, fig_json, issued, nb0, store0,
                   log, src, fig_in>>

\* new_outputs = []; for out in cell.get("outputs", []):
BeginCell ==
    /\ pc = "cells"
    /\ ci <= Len(nb)
    /\ IsCodeCell(nb[ci])
    /\ new_outputs' = <<>>
    /\ oi' = 1
    /\ pc' = "outputs"
    /\ UNCHANGED <<nb, resources, ci, html, fig_json, issued, nb0, store0, log, src, fig_in>>

\* if not html: new_outputs.append(out); continue
PassNoHtml ==
    /\ AtOutput
    /\ HtmlOf(Out) = ""
    /\ html' = HtmlOf(Out)
    /\ new_outputs' = PassThrough(new_outputs, Out)
    /\ log' = Logged("no_html", "", <<>>)
    /\ oi' = oi + 1
    /\ UNCHANGED <<pc, nb, resources, ci, fig_json, issued, nb0, store0, src, fig_in>>

\* fig_json = self.extract_plotly_json(html)
Extract ==
    /\ AtOutput
    /\ HtmlOf(Out) # ""
    /\ html' = HtmlOf(Out)
    /\ fig_json' = extract_plotly_json(HtmlOf(Out))
    /\ pc' = "extracted"
    /\ UNCHANGED <<nb, resources, ci, oi, new_outputs, issued, nb0, store0, log, src, fig_in>>

\* if not fig_json: new_outputs.append(out); continue
PassNoSpec ==
    /\ pc = "extracted"
    /\ fig_json.absent
    /\ new_outputs' = PassThrough(new_outputs, Out)
    /\ log' = Logged("no_spec", "", <<>>)
    /\ oi' = oi + 1
    /\ pc' = "outputs"
    /\ UNCHANGED <<nb, resources, ci, html, fig_json, issued, nb0, store0, src, fig_in>>

\* self.normalize_heatmapgl(fig_json) returns.
Normalize ==
    /\ pc = "extracted"
    /\ ~fig_json.absent
    /\ LET done == normalize_heatmapgl(fig_json)
       IN  /\ ~done.raised
           /\ fig_json' = done.fig
    /\ fig_in' = fig_json
    /\ pc' = "normalized"
    /\ UNCHANGED <<nb, resources, ci, oi, new_outputs, html, issued, nb0, store0, log, src>>

\* self.normalize_heatmapgl(fig_json) raises: it is called outside the try,
\* so the error leaves preprocess.
NormalizeRaises ==
    /\ pc = "extracted"
    /\ ~fig_json.absent
    /\ LET done == normalize_heatmapgl(fig_json)
       IN  /\ done.raised
           /\ fig_json' = done.fig
    /\ fig_in' = fig_json
    /\ pc' = "raised"
    /\ UNCHANGED <<nb, resources, ci, oi, new_outputs, html, issued, nb0, store0, log, src>>

\* except Exception: new_outputs.append(out); continue.  go.Figure and
\* pio.to_image can raise on any figure.
RenderFails ==
    /\ pc = "normalized"
    /\ new_outputs' = PassThrough(new_outputs, Out)
    /\ log' = Logged("render_failed", "", <<>>)
    /\ oi' = oi + 1
    /\ pc' = "outputs"
    /\ UNCHANGED <<nb, resources, ci, html, fig_json, issued, nb0, store0, src, fig_in>>

\* The figure renders to png: the image is stored under a new file name and
\* the output is replaced.  uuid4 returns an identifier never issued before.
Convert(png, hex) ==
    /\ pc = "normalized"
    /\ hex \notin issued
    /\ issued' = issued \cup {hex}
    /\ resources' = [resources EXCEPT !.outputs = StoreImage(@, FileName(hex), png)]
    /\ new_outputs' = Append(new_outputs, StaticOutput(png, FigureWidth(fig_json)))
    /\ log' = Logged("converted", FileName(hex), png)
    /\ oi' = oi + 1
    /\ pc' = "outputs"
    /\ UNCHANGED <<nb, ci, html, fig_json, nb0, store0, src, fig_in>>

\* cell["outputs"] = new_outputs
EndCell ==
    /\ pc = "outputs"
    /\ oi > Len(CellOutputs(nb[ci]))
    /\ nb' = [nb EXCEPT ![ci] = [k \in DOMAIN @ \cup {"outputs"} |->
                                    IF k = "outputs" THEN new_outputs ELSE @[k]]]
    /\ ci' = ci + 1
    /\ pc' = "cells"
    /\ UNCHANGED <<resources, oi, new_outputs, html, fig_json, issued, nb0, store0, log, src,
                   fig_in>>

\* return nb, resources
Return ==
    /\ pc = "cells"
    /\ ci > Len(nb)
    /\ pc' = "returned"
    /\ UNCHANGED <<nb, resources, ci, oi, new_outputs, html, fig_json, issued, nb0, store0,
                   log, src, fig_in>>

Next ==
    \/ Call
    \/ SkipCell
    \/ BeginCell
    \/ PassNoHtml
    \/ Extract
    \/ PassNoSpec
    \/ Normalize
    \/ NormalizeRaises
    \/ RenderFails
    \/ \E png \in PngImages, hex \in UuidHex : Convert(png, hex)
    \/ EndCell
    \/ Return

Spec == Init /\ [][Next]_vars

(***************************************************************************)
(* Properties of preprocess                                                *)
(***************************************************************************)

CodeCellsOf(cells) == {c \in 1..Len(cells) : cells[c].cell_type = "code"}

OutputsBefore(c) == IF "outputs" \in DOMAIN nb0[c] THEN nb0[c].outputs ELSE <<>>

\* The entries of the log for output i of cell c, and the entries of the
\* outputs that were converted.
Entries(c, i) == {k \in 1..Len(log) : log[k].cell = c /\ log[k].index = i}
EntryOf(c, i) == log[CHOOSE k \in Entries(c, i) : TRUE]
Converted == {k \in 1..Len(log) : log[k].what = "converted"}

IsImageOutput(o) ==
    /\ o.output_type = "display_data"
    /\ "data" \in DOMAIN o
    /\ DOMAIN o.data = {"image/png"}

\* C1: after preprocess has returned, every code cell that had N outputs has
\* N outputs, each output was handled exactly once, and the output at each
\* position is the original output of that position or the image output
\* that replaced it.
C1_OutputsKeepCountAndOrder ==
    pc = "returned" =>
        \A c \in CodeCellsOf(nb0) :
            /\ "outputs" \in DOMAIN nb[c]
            /\ Len(nb[c].outputs) = Len(OutputsBefore(c))
            /\ \A i \in 1..Len(OutputsBefore(c)) :
                /\ Cardinality(Entries(c, i)) = 1
                /\ \/ nb[c].outputs[i] = nb0[c].outputs[i]
                   \/ /\ IsImageOutput(nb[c].outputs[i])
                      /\ EntryOf(c, i).what = "converted"

\* A call has returned a cell of two outputs whose first output was replaced
\* and whose second output was passed through.
C1_Witness ==
    /\ pc = "returned"
    /\ \E c \in CodeCellsOf(nb0) :
        /\ Len(OutputsBefore(c)) = 2
        /\ Len(nb[c].outputs) = 2
        /\ IsImageOutput(nb[c].outputs[1])
        /\ nb[c].outputs[1] # nb0[c].outputs[1]
        /\ nb[c].outputs[2] = nb0[c].outputs[2]

\* The texts of the documents that hold no chart specification: one without
\* an invocation, one whose data is no literal.
NoSpecTexts == {HtmlPlain, HtmlBadLiteral}

\* C2: after preprocess has returned, an output that differs from the
\* original had a text/html entry with a specification, and was rendered; an
\* output without text/html entry, one whose text holds no specification,
\* and one whose rendering raised, equal the original.
C2_ReplacedOnlyWhenRendered ==
    pc = "returned" =>
        \A c \in CodeCellsOf(nb0) : \A i \in 1..Len(OutputsBefore(c)) :
            LET before == nb0[c].outputs[i]
                after == nb[c].outputs[i]
                e == EntryOf(c, i)
            IN  /\ after # before =>
                    /\ HtmlOf(before) \notin {""} \cup NoSpecTexts
                    /\ e.what = "converted"
                /\ HtmlOf(before) = "" => after = before /\ e.what = "no_html"
                /\ HtmlOf(before) \in NoSpecTexts => after = before /\ e.what = "no_spec"
                /\ e.what = "render_failed" => after = before

\* A call has returned a cell in which the rendering of one chart raised and
\* the text of another output held a malformed literal.
C2_Witness ==
    /\ pc = "returned"
    /\ \E c \in CodeCellsOf(nb0) : \E i, j \in 1..Len(OutputsBefore(c)) :
        /\ EntryOf(c, i).what = "render_failed"
        /\ nb[c].outputs[i] = nb0[c].outputs[i]
        /\ HtmlOf(nb0[c].outputs[j]) = HtmlBadLiteral
        /\ nb[c].outputs[j] = nb0[c].outputs[j]

\* C3: preprocess returns normally for every document: no error of the
\* extraction, the normalization or the rendering of an output leaves it.
C3_NoErrorLeavesPreprocess == pc # "raised"

\* C4: a cell that is no code cell is at every moment as it was passed, no
\* output of it is handled, and a document without code cells leaves the
\* store as it was.
C4_OtherCellsUntouched ==
    /\ \A c \in 1..Len(nb0) :
        nb0[c].cell_type # "code" =>
            /\ nb[c] = nb0[c]
            /\ \A k \in 1..Len(log) : log[k].cell # c
    /\ CodeCellsOf(nb0) = {} => StoreOf(resources) = store0

\* A call has returned a document of a raw cell that holds a chart, and of a
\* code cell whose chart was converted.
C4_Witness ==
    /\ pc = "returned"
    /\ Converted # {}
    /\ \E c \in 1..Len(nb0) :
        /\ nb0[c].cell_type = "raw"
        /\ nb[c].outputs = <<OutChart>>

B64Index(c) == CHOOSE n \in 0..63 : Ch(Base64Alphabet, n + 1) = c

\* The bytes a base64 text stands for.
RECURSIVE B64Decode(_)
B64Decode(s) ==
    IF s = "" THEN <<>>
    ELSE LET a == B64Index(Ch(s, 1))
             b == B64Index(Ch(s, 2))
             first == <<a * 4 + b \div 16>>
         IN  IF Ch(s, 3) = "=" THEN first
             ELSE LET c == B64Index(Ch(s, 3))
                      second == <<(b % 16) * 16 + c \div 4>>
                  IN  IF Ch(s, 4) = "=" THEN first \o second
                      ELSE first \o second \o <<(c % 4) * 64 + B64Index(Ch(s, 4))>>
                           \o B64Decode(SubSeq(s, 5, Len(s)))

\* The width the layout of a specification sets, DefaultWidth when it sets none.
WidthSet(layout) ==
    IF DictHas(layout, Str_width) /\ DictAt(layout, Str_width) # VNone
    THEN DictAt(layout, Str_width)[2]
    ELSE DefaultWidth

\* C5: the output that replaces a rendered chart has output type
\* display_data, a payload whose only key is image/png and whose value
\* decodes from base64 to the rendered bytes, and metadata whose image/png
\* width is the width the extracted layout sets, else 700.
C5_ReplacementShape ==
    pc = "returned" =>
        \A k \in Converted :
            LET e == log[k]
                o == nb[e.cell].outputs[e.index]
            IN  /\ o.output_type = "display_data"
                /\ DOMAIN o.data = {"image/png"}
                /\ B64Decode(o.data["image/png"]) = e.png
                /\ o.metadata["image/png"].width = WidthSet(e.spec.layout)

\* A call has returned with a chart of width 500 and a chart without width,
\* both replaced.
C5_Witness ==
    /\ pc = "returned"
    /\ \E j, k \in Converted :
        /\ nb[log[j].cell].outputs[log[j].index].metadata["image/png"].width = 500
        /\ DictHas(log[j].spec.layout, Str_width)
        /\ nb[log[k].cell].outputs[log[k].index].metadata["image/png"].width = DefaultWidth
        /\ ~DictHas(log[k].spec.layout, Str_width)

\* C6: from the call on, every entry the store held when the call was made
\* is in the store with the same bytes, the store holds one more entry for
\* each converted chart and no other, and the entry of a converted chart
\* holds its PNG bytes under a name the store did not hold.
C6_StoreOnlyExtended ==
    pc # "idle" =>
        LET store == StoreOf(resources)
            added == DOMAIN store \ DOMAIN store0
        IN  /\ \A f \in DOMAIN store0 : f \in DOMAIN store /\ store[f] = store0[f]
            /\ Cardinality(added) = Cardinality(Converted)
            /\ \A k \in Converted :
                /\ log[k].fname \in added
                /\ store[log[k].fname] = log[k].png

\* A call that was given a store with entries, one of them left by an
\* earlier conversion, has converted a chart to another image than that one.
C6_Witness ==
    /\ pc = "returned"
    /\ "plotly_static_u0.png" \in DOMAIN store0
    /\ \E k \in Converted : log[k].png # store0["plotly_static_u0.png"]

(***************************************************************************)
(* normalize_heatmapgl on its own                                          *)
(***************************************************************************)

\* What preprocess holds when it is not running.
NotInPreprocess ==
    /\ nb = <<>>
    /\ resources = NoResources
    /\ ci = 0
    /\ oi = 0
    /\ new_outputs = <<>>
    /\ issued = {}
    /\ nb0 = <<>>
    /\ store0 = EmptyDict
    /\ log = <<>>

\* The most traces of a figure.
MaxTraces == 2

\* The traces of the figures: of the deprecated type, of another type, of no
\* type, and a value that is no dict.
Traces ==
    {VDict(<<<<Str_type, Str_heatmapgl>>, <<VStr("z"), VInt(1)>>>>),
     VDict(<<<<Str_type, VStr("bar")>>>>),
     VDict(<<>>),
     VInt(1)}

\* The values of layout.template.data: each key its own value, in any order.
TemplateEntries ==
    {<<Str_heatmapgl, VInt(1)>>, <<Str_heatmap, VInt(2)>>, <<VStr("bar"), VInt(3)>>}
TemplateDatas ==
    {VDict(kvs) : kvs \in {q \in SeqsUpTo(TemplateEntries, Cardinality(TemplateEntries)) :
                              \A i, j \in 1..Len(q) : i # j => q[i] # q[j]}}

\* The values of layout.template: mappings with and without data, whose
\* data is or is not a mapping, and values that are no mapping.
Templates ==
    {VDict(<<<<VStr("layout"), VDict(<<>>)>>, <<Str_data, d>>>>) :
        d \in TemplateDatas \cup {VNone, VList(<<>>)}}
    \cup {VDict(<<>>), VDict(<<<<VStr("layout"), VDict(<<>>)>>>>), VStr("plotly"), VNone}

\* The layouts: without template, with one before and after another key,
\* and a layout that is a set, which "{1}" evaluates to.
Layouts ==
    {VDict(<<<<Str_width, VInt(500)>>>>), VSet({VInt(1)})}
    \cup {VDict(<<<<Str_template, t>>, <<Str_width, VInt(500)>>>>) : t \in Templates}
    \cup {VDict(<<<<Str_width, VInt(500)>>, <<Str_template, t>>>>) : t \in {VDict(<<>>), VNone}}

Figures ==
    {[absent |-> FALSE, data |-> VList(d), layout |-> l, config |-> VDict(<<>>)] :
        d \in SeqsUpTo(Traces, MaxTraces), l \in Layouts}

InitNormalize ==
    /\ pc = "normalize"
    /\ fig_json \in Figures
    /\ fig_in = fig_json
    /\ html = ""
    /\ src = NoSrc
    /\ NotInPreprocess

\* normalize_heatmapgl(fig_json) returns: fig_json is changed in place.
NormalizeReturns ==
    /\ pc = "normalize"
    /\ LET done == normalize_heatmapgl(fig_json)
       IN  /\ ~done.raised
           /\ fig_json' = done.fig
    /\ pc' = "normalize_returned"
    /\ UNCHANGED <<nb, resources, ci, oi, new_outputs, html, issued, nb0, store0, log, src,
                   fig_in>>

\* normalize_heatmapgl(fig_json) raises AttributeError: fig_json keeps the
\* changes made before.
NormalizeRaised ==
    /\ pc = "normalize"
    /\ LET done == normalize_heatmapgl(fig_json)
       IN  /\ done.raised
           /\ fig_json' = done.fig
    /\ pc' = "normalize_raised"
    /\ UNCHANGED <<nb, resources, ci, oi, new_outputs, html, issued, nb0, store0, log, src,
                   fig_in>>

NextNormalize == NormalizeReturns \/ NormalizeRaised

SpecNormalize == InitNormalize /\ [][NextNormalize]_vars

\* layout.template.data of a figure whose layout and template are mappings,
\* None when there is none.
TemplateDataOf(f) ==
    IF IsDict(f.layout) /\ IsDict(DictGet(f.layout, Str_template, VNone))
    THEN DictGet(DictAt(f.layout, Str_template), Str_data, VNone)
    ELSE VNone

KeysOf(d) == {d[2][i][1] : i \in 1..Len(d[2])}
PlaceOf(d, k) == CHOOSE i \in 1..Len(d[2]) : d[2][i][1] = k
ValueOf(d, k) == d[2][PlaceOf(d, k)][2]

NormalizeDone == pc \in {"normalize_returned", "normalize_raised"}

\* The figures whose traces and layout are mappings.
WellFormed(f) ==
    /\ \A i \in 1..Len(f.data[2]) : IsDict(f.data[2][i])
    /\ IsDict(f.layout)

\* C8, as claimed: for a figure of mappings whose layout.template.data is a
\* mapping, normalize_heatmapgl returns, and afterwards the key heatmapgl, if
\* it was present, is gone and heatmap holds its value, and every other key,
\* a heatmap key that was present included, holds the value it had.
C8_AsClaimed ==
    (NormalizeDone /\ WellFormed(fig_in) /\ IsDict(TemplateDataOf(fig_in))) =>
        LET before == TemplateDataOf(fig_in)
            after == TemplateDataOf(fig_json)
        IN  /\ pc = "normalize_returned"
            /\ IsDict(after)
            /\ Str_heatmapgl \in KeysOf(before) =>
                /\ Str_heatmapgl \notin KeysOf(after)
                /\ Str_heatmap \in KeysOf(after)
                /\ ValueOf(after, Str_heatmap) = ValueOf(before, Str_heatmapgl)
            /\ \A k \in KeysOf(before) \ {Str_heatmapgl} :
                k \in KeysOf(after) /\ ValueOf(after, k) = ValueOf(before, k)

\* C8, amended: for a figure of mappings whose layout.template.data is a
\* mapping, normalize_heatmapgl returns, and afterwards the key heatmapgl is
\* gone, every key other than heatmapgl and heatmap holds the value it had
\* and no key is new but heatmap, and heatmap, when heatmapgl or heatmap was
\* present, holds the value of the one of the two that came last in the
\* mapping.
C8_RenamedLastWins ==
    (NormalizeDone /\ WellFormed(fig_in) /\ IsDict(TemplateDataOf(fig_in))) =>
        LET before == TemplateDataOf(fig_in)
            after == TemplateDataOf(fig_json)
            both == KeysOf(before) \cap {Str_heatmapgl, Str_heatmap}
            last == CHOOSE k \in both : \A j \in both : PlaceOf(before, j) <= PlaceOf(before, k)
        IN  /\ pc = "normalize_returned"
            /\ IsDict(after)
            /\ Str_heatmapgl \notin KeysOf(after)
            /\ KeysOf(after) \ {Str_heatmap} = KeysOf(before) \ {Str_heatmapgl, Str_heatmap}
            /\ \A k \in KeysOf(before) \ {Str_heatmapgl, Str_heatmap} :
                ValueOf(after, k) = ValueOf(before, k)
            /\ (Str_heatmap \in KeysOf(after)) = (both # {})
            /\ both # {} => ValueOf(after, Str_heatmap) = ValueOf(before, last)

\* normalize_heatmapgl has returned for a template data that held heatmap and
\* then heatmapgl: heatmap holds the value heatmapgl had.
C8_Witness ==
    /\ pc = "normalize_returned"
    /\ IsDict(TemplateDataOf(fig_in))
    /\ {Str_heatmapgl, Str_heatmap, VStr("bar")} \subseteq KeysOf(TemplateDataOf(fig_in))
    /\ PlaceOf(TemplateDataOf(fig_in), Str_heatmap) < PlaceOf(TemplateDataOf(fig_in), Str_heatmapgl)
    /\ ValueOf(TemplateDataOf(fig_json), Str_heatmap) = VInt(1)

\* The layout without its template.
Rest(layout) == {layout[2][i] : i \in {j \in 1..Len(layout[2]) : layout[2][j][1] # Str_template}}

\* C9: for a figure whose layout.template is absent or no mapping, or whose
\* template.data is absent or no mapping, normalize_heatmapgl returns, the
\* layout then holds a template, the empty mapping when it held none and
\* else the template it held, and the rest of the layout is as it was.
C9_TemplateStepIsNoOp ==
    (NormalizeDone /\ WellFormed(fig_in) /\ ~IsDict(TemplateDataOf(fig_in))) =>
        /\ pc = "normalize_returned"
        /\ DictHas(fig_json.layout, Str_template)
        /\ DictAt(fig_json.layout, Str_template) = DictGet(fig_in.layout, Str_template, VDict(<<>>))
        /\ Rest(fig_json.layout) = Rest(fig_in.layout)

(***************************************************************************)
(* extract_plotly_json on its own                                          *)
(***************************************************************************)

RECURSIVE IntText(_)
IntText(n) == IF n < 10 THEN Ch("0123456789", n + 1)
              ELSE IntText(n \div 10) \o Ch("0123456789", (n % 10) + 1)

\* The JavaScript literal Plotly writes for a value: JSON.
RECURSIVE JsText(_), JsItems(_), JsMembers(_)
JsText(v) ==
    CASE Kind(v) = "none" -> "null"
      [] Kind(v) = "bool" -> IF v[2] THEN "true" ELSE "false"
      [] Kind(v) = "int" -> IntText(v[2])
      [] Kind(v) = "str" -> "\"" \o v[2] \o "\""
      [] Kind(v) = "list" -> "[" \o JsItems(v[2]) \o "]"
      [] Kind(v) = "dict" -> "{" \o JsMembers(v[2]) \o "}"
JsItems(xs) ==
    IF xs = <<>> THEN ""
    ELSE JsText(xs[1]) \o (IF Len(xs) = 1 THEN "" ELSE "," \o JsItems(Tail(xs)))
JsMembers(kvs) ==
    IF kvs = <<>> THEN ""
    ELSE JsText(kvs[1][1]) \o ":" \o JsText(kvs[1][2])
         \o (IF Len(kvs) = 1 THEN "" ELSE "," \o JsMembers(Tail(kvs)))

\* The text of an output that draws a chart of these arguments.
Invocation(args) ==
    "<div id=\"x\"></div><script>Plotly.newPlot('x', " \o JsText(args.data) \o ", "
    \o JsText(args.layout)
    \o (IF args.has_config THEN ", " \o JsText(args.config) ELSE "")
    \o ")</script>"

\* The values of the members of the arguments: scalars, strings that hold
\* the letters of a literal, arrays and objects, and arrays of objects.
Members ==
    {VNone, VBool(TRUE), VBool(FALSE), VInt(12), VStr("a"), VStr("true"), VStr("is null"),
     VList(<<>>), VList(<<VInt(1), VInt(2)>>), VList(<<VList(<<VInt(1)>>), VNone>>),
     VDict(<<>>), VDict(<<<<VStr("b"), VBool(FALSE)>>>>),
     VList(<<VDict(<<>>), VDict(<<<<VStr("b"), VInt(1)>>>>)>>)}

DataArguments ==
    {VList(<<>>), VList(<<VList(<<VInt(1)>>), VDict(<<>>)>>)}
    \cup {VList(<<VDict(<<<<VStr("y"), m>>>>)>>) : m \in Members}

LayoutArguments ==
    {VDict(<<>>), VDict(<<<<VStr("false"), VInt(1)>>>>)}
    \cup {VDict(<<<<VStr("k"), m>>>>) : m \in Members}

ConfigArguments ==
    {VDict(<<>>), VDict(<<<<VStr("responsive"), VBool(TRUE)>>>>),
     VDict(<<<<VStr("o"), VList(<<VDict(<<>>)>>)>>>>)}

Arguments ==
    {[data |-> d, layout |-> l, config |-> c, has_config |-> TRUE] :
        d \in DataArguments, l \in LayoutArguments, c \in ConfigArguments}
    \cup {[data |-> d, layout |-> l, config |-> VDict(<<>>), has_config |-> FALSE] :
        d \in DataArguments, l \in LayoutArguments}

InitExtract ==
    /\ pc = "extract"
    /\ src \in Arguments \cup {NoSrc}
    /\ html = IF src = NoSrc THEN HtmlPlain ELSE Invocation(src)
    /\ fig_json = NoFig
    /\ fig_in = NoFig
    /\ NotInPreprocess

\* if not match: return None
ExtractMisses ==
    /\ pc = "extract"
    /\ ~NEWPLOT_PATTERN(html).matched
    /\ fig_json' = extract_plotly_json(html)
    /\ pc' = "extract_missed"
    /\ UNCHANGED <<nb, resources, ci, oi, new_outputs, html, issued, nb0, store0, log, src,
                   fig_in>>

\* except Exception: return None
ExtractFails ==
    /\ pc = "extract"
    /\ NEWPLOT_PATTERN(html).matched
    /\ extract_plotly_json(html).absent
    /\ fig_json' = extract_plotly_json(html)
    /\ pc' = "extract_failed"
    /\ UNCHANGED <<nb, resources, ci, oi, new_outputs, html, issued, nb0, store0, log, src,
                   fig_in>>

\* return {"data": data, "layout": layout, "config": config}
ExtractReturns ==
    /\ pc = "extract"
    /\ ~extract_plotly_json(html).absent
    /\ fig_json' = extract_plotly_json(html)
    /\ pc' = "extract_returned"
    /\ UNCHANGED <<nb, resources, ci, oi, new_outputs, html, issued, nb0, store0, log, src,
                   fig_in>>

NextExtract == ExtractMisses \/ ExtractFails \/ ExtractReturns

SpecExtract == InitExtract /\ [][NextExtract]_vars

ExtractDone == pc \in {"extract_missed", "extract_failed", "extract_returned"}

\* The strings of a value, keys and values, and its None, True and False,
\* each in the order of the text.
RECURSIVE StringsOf(_), LiteralsOf(_)
StringsOf(v) ==
    CASE Kind(v) = "str" -> <<v[2]>>
      [] Kind(v) \in {"list", "tuple"} ->
            IF v[2] = <<>> THEN <<>>
            ELSE StringsOf(v[2][1]) \o StringsOf(<<v[1], Tail(v[2])>>)
      [] Kind(v) = "dict" ->
            IF v[2] = <<>> THEN <<>>
            ELSE StringsOf(v[2][1][1]) \o StringsOf(v[2][1][2]) \o StringsOf(<<v[1], Tail(v[2])>>)
      [] OTHER -> <<>>
LiteralsOf(v) ==
    CASE Kind(v) \in {"none", "bool"} -> <<v>>
      [] Kind(v) \in {"list", "tuple"} ->
            IF v[2] = <<>> THEN <<>>
            ELSE LiteralsOf(v[2][1]) \o LiteralsOf(<<v[1], Tail(v[2])>>)
      [] Kind(v) = "dict" ->
            IF v[2] = <<>> THEN <<>>
            ELSE LiteralsOf(v[2][1][1]) \o LiteralsOf(v[2][1][2]) \o LiteralsOf(<<v[1], Tail(v[2])>>)
      [] OTHER -> <<>>

\* The arguments none of whose strings holds the letters of a JavaScript
\* literal.
PlainStrings(args) ==
    \A g \in {"data", "layout", "config"} :
        \A i \in 1..Len(StringsOf(args[g])) : _fix_js(StringsOf(args[g])[i]) = StringsOf(args[g])[i]

\* C7: for a text that holds one invocation whose arguments are well-formed
\* literals, nested as they may be (and whose strings hold no null, true or
\* false), extract_plotly_json returns the value of the first as data, of the
\* second as layout, and of the third, or the empty mapping when there is
\* none, as config.
C7_ReturnsTheArguments ==
    (ExtractDone /\ src # NoSrc /\ PlainStrings(src)) =>
        /\ pc = "extract_returned"
        /\ fig_json.data = src.data
        /\ fig_json.layout = src.layout
        /\ fig_json.config = src.config

\* C10: in what extract_plotly_json returns, every null, true and false of
\* the three arguments is None, True and False, and every string of them,
\* key or value, has the characters it has in the text.
C10_OnlyBareTokensRewritten ==
    (pc = "extract_returned" /\ src # NoSrc) =>
        \A g \in {"data", "layout", "config"} :
            /\ LiteralsOf(fig_json[g]) = LiteralsOf(src[g])
            /\ StringsOf(fig_json[g]) = StringsOf(src[g])
=============================================================================
